---- MODULE Spec2Model ----
(***************************************************************************)
(* The doc server of cmd/doc/main.go: the doc handler (decoding of a CRD,  *)
(* selection of the schema to document, execution of the doc.html          *)
(* template and of its recursive "field" template) serving concurrent      *)
(* requests, each in its own goroutine.                                    *)
(*                                                                         *)
(* Encoding.  A Go pointer is a sequence of length at most one: <<>> is    *)
(* nil and <<x>> points at x.  A property name is a natural number, names  *)
(* being ordered as the numbers are: 1, 2, 3, 4 stand for "a", "b", "c",   *)
(* "x".  An anchor id (a value of rand.String(10)) is a number of          *)
(* 1..NumIds.                                                              *)
(***************************************************************************)
EXTENDS Naturals, Sequences, FiniteSets, TLC

\* ------------------------------------------------------------------ bounds

\* Longest version list of the enumerated manifests.
MaxVersions == 3

\* Number of distinct values genRand can return.
NumIds == 2

\* The maximum depth D the specification configures (the source has none).
MaxDepth == 1

\* The requests served, each by a goroutine of its own (net/http).
Requests == {1, 2}

Ids == 1..NumIds

Nil == <<>>

\* ----------------------------------------------------------- schema values

\* apiextensions.JSONSchemaProps, the fields the templates read.
JSONSchemaProps(desc, type, required, props, addl, items) ==
    [Description |-> desc, Type |-> type, Required |-> required,
     Properties |-> props, AdditionalProperties |-> addl, Items |-> items]

\* apiextensions.JSONSchemaPropsOrBool
JSONSchemaPropsOrBool(allows, schema) == [Allows |-> allows, Schema |-> schema]

\* apiextensions.JSONSchemaPropsOrArray
JSONSchemaPropsOrArray(schema, schemas) == [Schema |-> schema, JSONSchemas |-> schemas]

\* apiextensions.CustomResourceValidation
CustomResourceValidation(root) == [OpenAPIV3Schema |-> root]

\* apiextensions.CustomResourceDefinitionVersion
CustomResourceDefinitionVersion(name, storage, schema) ==
    [Name |-> name, Storage |-> storage, Schema |-> schema]

\* apiextensions.CustomResourceDefinition (its Spec)
CustomResourceDefinition(validation, versions) ==
    [Validation |-> validation, Versions |-> versions]

\* crd := &apiextensions.CustomResourceDefinition{}
ZeroCRD == CustomResourceDefinition(Nil, <<>>)

Leaf(type) == JSONSchemaProps("", type, <<>>, <<>>, Nil, Nil)

Object(desc, required, props) == JSONSchemaProps(desc, "object", required, props, Nil, Nil)

\* An object whose property "a" nests n - 1 further levels of property "a".
RECURSIVE Chain(_)
Chain(n) ==
    IF n = 0 THEN Leaf("string") ELSE Object("", <<>>, 1 :> Chain(n - 1))

\* ------------------------------------------------------------------ inputs

Props1(k, v) == k :> v

Props2(k1, v1, k2, v2) == (k1 :> v1) @@ (k2 :> v2)

WithAdditionalProperties(type, addl) == JSONSchemaProps("", type, <<>>, <<>>, <<addl>>, Nil)

WithItems(items) == JSONSchemaProps("", "array", <<>>, <<>>, Nil, <<items>>)

\* {type: object, properties: {a: {type: string}, b: {type: integer}}, required: [b]}
FlatSchema == Object("flat", <<2>>, Props2(1, Leaf("string"), 2, Leaf("integer")))

\* The name "a" at two levels, each level's properties given out of order.
NestedSchema ==
    Object("nested", <<>>,
           Props2(3, Leaf("boolean"),
                  1, Object("", <<1>>, Props2(2, Leaf("integer"), 1, Leaf("string")))))

AddlTrueSchema ==
    Object("addl-true", <<>>,
           Props1(1, WithAdditionalProperties("object", JSONSchemaPropsOrBool(TRUE, Nil))))

AddlFalseSchema ==
    Object("addl-false", <<>>,
           Props1(1, WithAdditionalProperties("object", JSONSchemaPropsOrBool(FALSE, Nil))))

\* additionalProperties: {type: object, properties: {x: {type: string}}}
AddlSchemaSchema ==
    Object("addl-schema", <<>>,
           Props1(1, WithAdditionalProperties("object",
                        JSONSchemaPropsOrBool(TRUE,
                            <<Object("", <<>>, Props1(4, Leaf("string")))>>))))

\* additionalProperties: {type: array, items: {type: object, properties: {x: ...}}}
AddlNestedSchema ==
    Object("addl-nested", <<>>,
           Props1(1, WithAdditionalProperties("object",
                        JSONSchemaPropsOrBool(TRUE,
                            <<WithItems(JSONSchemaPropsOrArray(
                                  <<Object("", <<>>, Props1(4, Leaf("string")))>>, <<>>))>>))))

\* items: {type: object, properties: {x: {type: string}}}
ItemsSchema ==
    Object("items", <<>>,
           Props1(1, WithItems(JSONSchemaPropsOrArray(
                         <<Object("", <<>>, Props1(4, Leaf("string")))>>, <<>>))))

\* items in tuple form with no entry
EmptyTupleSchema ==
    Object("tuple-0", <<>>, Props1(1, WithItems(JSONSchemaPropsOrArray(Nil, <<>>))))

\* items: [{type: string}, {type: integer}], followed by a property b
TupleSchema ==
    Object("tuple-2", <<>>,
           Props2(1, WithItems(JSONSchemaPropsOrArray(Nil, <<Leaf("string"), Leaf("integer")>>)),
                  2, Leaf("string")))

DeepSchema == Chain(MaxDepth + 2)

Shapes ==
    {FlatSchema, NestedSchema, AddlTrueSchema, AddlFalseSchema, AddlSchemaSchema,
     AddlNestedSchema, ItemsSchema, EmptyTupleSchema, TupleSchema, DeepSchema,
     Leaf("object")}

\* The manifests of the concurrent specification: one top-level validation
\* schema, no version list.
Catalogue ==
    {CustomResourceDefinition(<<CustomResourceValidation(<<s>>)>>, <<>>) : s \in Shapes}

\* A validation pointer: nil, set with no OpenAPIV3Schema, set with root s.
ValidationChoices(s) ==
    {Nil, <<CustomResourceValidation(Nil)>>, <<CustomResourceValidation(<<s>>)>>}

TopSchema == [AddlSchemaSchema EXCEPT !.Description = "top"]

\* The schema of the i-th version: each differs from the others and from TopSchema.
VersionSchema(i) ==
    LET shape == CASE i = 1 -> ItemsSchema
                   [] i = 2 -> TupleSchema
                   [] OTHER -> FlatSchema
    IN  [shape EXCEPT !.Description = ToString(i)]

VersionChoices(i) ==
    {CustomResourceDefinitionVersion(ToString(i), storage, schema) :
        storage \in BOOLEAN, schema \in ValidationChoices(VersionSchema(i))}

RECURSIVE VersionLists(_)
VersionLists(n) ==
    IF n = 0 THEN {<<>>}
    ELSE {Append(vs, v) : vs \in VersionLists(n - 1), v \in VersionChoices(n)}

\* The manifests of the resolving specification: every version list of up
\* to MaxVersions entries under every top-level validation.
Manifests ==
    {CustomResourceDefinition(validation, vs) :
        validation \in ValidationChoices(TopSchema),
        vs \in UNION {VersionLists(n) : n \in 0..MaxVersions}}

\* ------------------------------------------------------------------- state

VARIABLES
    pc,       \* pc[r]: where request r's handler is: idle, decoded, exec, done
    res,      \* res[r]: the value redis returned for the request (nil before)
    crd,      \* crd[r]: the handler's crd
    schema,   \* schema[r]: the handler's schema variable (nil or a validation)
    agenda,   \* agenda[r]: what the template execution has still to run
    w,        \* w[r]: the elements written to the response so far
    log,      \* log[r]: the handler's last log line
    reply,    \* reply[r]: what fmt.Fprint (or newTemplate) wrote to the response
    rng       \* calls made of the process-wide genRand

vars == <<pc, res, crd, schema, agenda, w, log, reply, rng>>

Init ==
    /\ pc = [r \in Requests |-> "idle"]
    /\ res = [r \in Requests |-> Nil]
    /\ crd = [r \in Requests |-> ZeroCRD]
    /\ schema = [r \in Requests |-> Nil]
    /\ agenda = [r \in Requests |-> <<>>]
    /\ w = [r \in Requests |-> <<>>]
    /\ log = [r \in Requests |-> ""]
    /\ reply = [r \in Requests |-> ""]
    /\ rng = 0

\* ------------------------------------------------------- version resolving

\* The loop over crd.Spec.Versions from entry i on: the first entry with
\* Storage set ends it, with an error when that entry has no schema.
RECURSIVE ScanVersions(_, _, _)
ScanVersions(versions, i, current) ==
    IF i > Len(versions) THEN [err |-> FALSE, schema |-> current]
    ELSE IF versions[i].Storage
         THEN IF versions[i].Schema = Nil
              THEN [err |-> TRUE, schema |-> current]
              ELSE [err |-> FALSE, schema |-> versions[i].Schema]
         ELSE ScanVersions(versions, i + 1, current)

\* ResolveVersion with the loop's break left out: a later storage entry
\* replaces an earlier one.
RECURSIVE ScanVersionsNoBreak(_, _, _)
ScanVersionsNoBreak(versions, i, current) ==
    IF i > Len(versions) THEN [err |-> FALSE, schema |-> current]
    ELSE IF versions[i].Storage
         THEN IF versions[i].Schema = Nil
              THEN [err |-> TRUE, schema |-> current]
              ELSE ScanVersionsNoBreak(versions, i + 1, versions[i].Schema)
         ELSE ScanVersionsNoBreak(versions, i + 1, current)

ResolveVersionNoBreak(c) ==
    IF Len(c.Versions) > 1
    THEN ScanVersionsNoBreak(c.Versions, 1, c.Validation)
    ELSE [err |-> FALSE, schema |-> c.Validation]

\* ResolveVersion with the nil check of the storage schema left out: the
\* top-level validation stays selected.
RECURSIVE ScanVersionsFallback(_, _, _)
ScanVersionsFallback(versions, i, current) ==
    IF i > Len(versions) THEN [err |-> FALSE, schema |-> current]
    ELSE IF versions[i].Storage
         THEN IF versions[i].Schema = Nil
              THEN [err |-> FALSE, schema |-> current]
              ELSE [err |-> FALSE, schema |-> versions[i].Schema]
         ELSE ScanVersionsFallback(versions, i + 1, current)

ResolveVersionFallback(c) ==
    IF Len(c.Versions) > 1
    THEN ScanVersionsFallback(c.Versions, 1, c.Validation)
    ELSE [err |-> FALSE, schema |-> c.Validation]

\* schema = crd.Spec.Validation, replaced by the storage version's schema
\* when the manifest lists more than one version.
ResolveVersion(c) ==
    IF Len(c.Versions) > 1
    THEN ScanVersions(c.Versions, 1, c.Validation)
    ELSE [err |-> FALSE, schema |-> c.Validation]

\* ------------------------------------------------------ template execution

\* The template function gt: an error unless its first argument is of a
\* basic kind; kind names the kind of a.
Gt(kind, a, b) ==
    IF kind = "int" THEN [err |-> FALSE, ok |-> a > b]
    ELSE [err |-> TRUE, ok |-> FALSE]

\* The order in which range visits the keys of a map: sorted.
RECURSIVE SortedKeys(_)
SortedKeys(keys) ==
    IF keys = {} THEN <<>>
    ELSE LET least == CHOOSE k \in keys : \A j \in keys : k <= j
         IN  <<least>> \o SortedKeys(keys \ {least})

Task(op, key, value, depth, parent) ==
    [op |-> op, key |-> key, value |-> value, depth |-> depth, parent |-> parent]

Element(kind, key, id, depth, parent, value) ==
    [kind |-> kind, key |-> key, id |-> id, depth |-> depth, parent |-> parent,
     value |-> value]

\* {{ if gt (len props) 0 }}{{ template "field" props }}{{ end }}: one
\* iteration of the range per key, in the order range visits them.
FieldTasks(props, depth, parent) ==
    IF Gt("int", Cardinality(DOMAIN props), 0).ok
    THEN LET keys == SortedKeys(DOMAIN props)
         IN  [i \in 1..Len(keys) |-> Task("field", keys[i], props[keys[i]], depth, parent)]
    ELSE <<>>

\* What the body of a panel runs after the panel of value is written as
\* element n: its properties, its additionalProperties, its items.
BodyTasks(key, value, depth, n) ==
    FieldTasks(value.Properties, depth + 1, n)
    \o (IF value.AdditionalProperties # Nil
        THEN <<Task("addl", key, value, depth, n)>> ELSE <<>>)
    \o (IF value.Items # Nil
        THEN <<Task("items", key, value, depth, n)>> ELSE <<>>)

\* ------------------------------------------------------------------ actions

\* parseGHURL fails.
InvalidURL(r) ==
    /\ pc[r] = "idle"
    /\ pc' = [pc EXCEPT ![r] = "done"]
    /\ log' = [log EXCEPT ![r] = "failed to parse Github path"]
    /\ reply' = [reply EXCEPT ![r] = "Invalid URL."]
    /\ UNCHANGED <<res, crd, schema, agenda, w, rng>>

\* redisClient.Get fails: the new template is rendered.
LookupMiss(r) ==
    /\ pc[r] = "idle"
    /\ pc' = [pc EXCEPT ![r] = "done"]
    /\ log' = [log EXCEPT ![r] = "failed to get CRDs"]
    /\ reply' = [reply EXCEPT ![r] = "template/new.html"]
    /\ UNCHANGED <<res, crd, schema, agenda, w, rng>>

\* json.Unmarshal fails.
DecodeError(r) ==
    /\ pc[r] = "idle"
    /\ pc' = [pc EXCEPT ![r] = "done"]
    /\ log' = [log EXCEPT ![r] = "failed to convert to CRD"]
    /\ reply' = [reply EXCEPT ![r] = "Supplied file is not a valid CRD."]
    /\ UNCHANGED <<res, crd, schema, agenda, w, rng>>

\* redisClient.Get returns the stored manifest c and json.Unmarshal decodes it.
Receive(r, c) ==
    /\ pc[r] = "idle"
    /\ pc' = [pc EXCEPT ![r] = "decoded"]
    /\ res' = [res EXCEPT ![r] = <<c>>]
    /\ crd' = [crd EXCEPT ![r] = c]
    /\ UNCHANGED <<schema, agenda, w, log, reply, rng>>

\* The selection of the schema, the nil checks, and the start of
\* docTemplate.Execute (doc.html, up to its call of "field").
Resolve(r) ==
    /\ pc[r] = "decoded"
    /\ LET rv == ResolveVersion(crd[r])
       IN  /\ schema' = [schema EXCEPT ![r] = rv.schema]
           /\ IF rv.err
              THEN /\ pc' = [pc EXCEPT ![r] = "done"]
                   /\ log' = [log EXCEPT ![r] = "storage version has not schema"]
                   /\ reply' = [reply EXCEPT ![r] =
                                   "Specified storage version does not have a schema."]
                   /\ UNCHANGED agenda
              ELSE IF rv.schema = Nil \/ rv.schema[1].OpenAPIV3Schema = Nil
              THEN /\ pc' = [pc EXCEPT ![r] = "done"]
                   /\ log' = [log EXCEPT ![r] = "CRD schema is nil."]
                   /\ reply' = [reply EXCEPT ![r] = "Supplied CRD has no schema."]
                   /\ UNCHANGED agenda
              ELSE /\ pc' = [pc EXCEPT ![r] = "exec"]
                   /\ agenda' = [agenda EXCEPT ![r] =
                                    FieldTasks(rv.schema[1].OpenAPIV3Schema[1].Properties, 1, 0)]
                   /\ UNCHANGED <<log, reply>>
    /\ UNCHANGED <<res, crd, w, rng>>

\* One iteration of the range of "field": genRand, the panel of $key, and
\* the body of the panel left to run.
ExecField(r) ==
    /\ pc[r] = "exec"
    /\ agenda[r] # <<>>
    /\ Head(agenda[r]).op = "field"
    /\ \E id \in Ids :
         LET t == Head(agenda[r])
             n == Len(w[r]) + 1
         IN  /\ w' = [w EXCEPT ![r] =
                         Append(@, Element("panel", t.key, id, t.depth, t.parent, t.value))]
             /\ agenda' = [agenda EXCEPT ![r] =
                              BodyTasks(t.key, t.value, t.depth, n) \o Tail(@)]
    /\ rng' = rng + 1
    /\ UNCHANGED <<pc, res, crd, schema, log, reply>>

\* {{ if $value.AdditionalProperties }}: the "allowed" paragraph, and the
\* description, the type and the properties of its schema.
ExecAdditionalProperties(r) ==
    /\ pc[r] = "exec"
    /\ agenda[r] # <<>>
    /\ Head(agenda[r]).op = "addl"
    /\ LET t == Head(agenda[r])
           ap == t.value.AdditionalProperties[1]
           allowed == IF ap.Allows
                      THEN <<Element("allowed", 0, 0, t.depth + 1, t.parent, t.value)>>
                      ELSE <<>>
           n == Len(w[r]) + Len(allowed) + 1
       IN  IF ap.Schema # Nil
           THEN /\ w' = [w EXCEPT ![r] =
                            @ \o allowed
                              \o <<Element("addlSchema", 0, 0, t.depth + 1, t.parent,
                                           ap.Schema[1])>>]
                /\ agenda' = [agenda EXCEPT ![r] =
                                 FieldTasks(ap.Schema[1].Properties, t.depth + 2, n)
                                 \o Tail(@)]
           ELSE /\ w' = [w EXCEPT ![r] = @ \o allowed]
                /\ agenda' = [agenda EXCEPT ![r] = Tail(@)]
    /\ UNCHANGED <<pc, res, crd, schema, log, reply, rng>>

\* {{ if $value.Items }}{{ if $value.Items.Schema }}: the description, the
\* type and the properties of the schema of the items; the tuple form is
\* left to run when JSONSchemas is not empty.
ExecItems(r) ==
    /\ pc[r] = "exec"
    /\ agenda[r] # <<>>
    /\ Head(agenda[r]).op = "items"
    /\ LET t == Head(agenda[r])
           items == t.value.Items[1]
           n == Len(w[r]) + 1
           tuple == IF items.JSONSchemas # <<>>
                    THEN <<Task("tuple", t.key, t.value, t.depth, t.parent)>>
                    ELSE <<>>
       IN  IF items.Schema # Nil
           THEN /\ w' = [w EXCEPT ![r] =
                            Append(@, Element("itemsSchema", 0, 0, t.depth + 1, t.parent,
                                              items.Schema[1]))]
                /\ agenda' = [agenda EXCEPT ![r] =
                                 FieldTasks(items.Schema[1].Properties, t.depth + 2, n)
                                 \o tuple \o Tail(@)]
           ELSE /\ UNCHANGED w
                /\ agenda' = [agenda EXCEPT ![r] = tuple \o Tail(@)]
    /\ UNCHANGED <<pc, res, crd, schema, log, reply, rng>>

\* {{ if gt ($value.Items.JSONSchemas) 0 }}: gt is given the slice itself;
\* its error ends the execution, and the handler writes its message.
ExecItemsTuple(r) ==
    /\ pc[r] = "exec"
    /\ agenda[r] # <<>>
    /\ Head(agenda[r]).op = "tuple"
    /\ LET t == Head(agenda[r])
           schemas == t.value.Items[1].JSONSchemas
           cmp == Gt("slice", schemas, 0)
       IN  IF cmp.err
           THEN /\ pc' = [pc EXCEPT ![r] = "done"]
                /\ agenda' = [agenda EXCEPT ![r] = <<>>]
                /\ log' = [log EXCEPT ![r] = "docTemplate.Execute(w, nil)"]
                /\ reply' = [reply EXCEPT ![r] = "Supplied CRD has no schema."]
           ELSE /\ agenda' = [agenda EXCEPT ![r] =
                                 (IF cmp.ok
                                  THEN [i \in 1..Len(schemas) |->
                                           Task("field", i - 1, schemas[i], t.depth + 1,
                                                t.parent)]
                                  ELSE <<>>) \o Tail(@)]
                /\ UNCHANGED <<pc, log, reply>>
    /\ UNCHANGED <<res, crd, schema, w, rng>>

\* docTemplate.Execute returns nil.
Finish(r) ==
    /\ pc[r] = "exec"
    /\ agenda[r] = <<>>
    /\ pc' = [pc EXCEPT ![r] = "done"]
    /\ log' = [log EXCEPT ![r] = "successfully rendered doc template"]
    /\ UNCHANGED <<res, crd, schema, agenda, w, reply, rng>>

\* ----------------------------------------------------------- specifications

\* The doc handler serving request r, its manifest one of pool.
Serve(r, pool) ==
    \/ InvalidURL(r)
    \/ LookupMiss(r)
    \/ DecodeError(r)
    \/ \E c \in pool : Receive(r, c)
    \/ Resolve(r)
    \/ ExecField(r)
    \/ ExecAdditionalProperties(r)
    \/ ExecItems(r)
    \/ ExecItemsTuple(r)
    \/ Finish(r)

\* Concurrent requests over the catalogue of schema shapes.
Next == \E r \in Requests : Serve(r, Catalogue)

Spec == Init /\ [][Next]_vars

\* One request over every manifest.
NextResolve == Serve(1, Manifests)

SpecResolve == Init /\ [][NextResolve]_vars

\* ------------------------------------------------------------------ claims

\* The messages of the doc handler for the resolving errors.
MissingStorageSchema == "Specified storage version does not have a schema."

Rendered == "successfully rendered doc template"

TemplateError == "docTemplate.Execute(w, nil)"

\* The handler of r is past the selection of the schema.
ResolutionDone(r) == res[r] # Nil /\ pc[r] \in {"exec", "done"}

\* The selection gave a schema: docTemplate.Execute was called on it.
Resolved(r) ==
    \/ pc[r] = "exec"
    \/ pc[r] = "done" /\ log[r] \in {Rendered, TemplateError}

\* A validation pointer that is set and has its OpenAPIV3Schema.
Full(v) == v # Nil /\ v[1].OpenAPIV3Schema # Nil

HasStorage(vs) == \E i \in 1..Len(vs) : vs[i].Storage

FirstStorage(vs) ==
    CHOOSE i \in 1..Len(vs) : vs[i].Storage /\ \A j \in 1..(i - 1) : ~vs[j].Storage

\* C1 as stated: whenever a manifest of more than one version has an entry
\* with storage set whose schema is present, the schema of such an entry is
\* returned.
C1_AnyStorageSchemaReturned ==
    \A r \in Requests :
        LET vs == crd[r].Versions
            present == {i \in 1..Len(vs) : vs[i].Storage /\ Full(vs[i].Schema)}
        IN  (ResolutionDone(r) /\ Len(vs) > 1 /\ present # {}) =>
                /\ Resolved(r)
                /\ \E i \in present : schema[r] = vs[i].Schema

\* C1, amended: when a manifest of more than one version has a storage entry
\* and the first such entry has a schema with its OpenAPIV3Schema, that
\* entry's schema is returned, and neither the schema of a non-storage
\* version nor the top-level validation is.
C1_FirstStorageSchemaResolved ==
    \A r \in Requests :
        LET vs == crd[r].Versions
        IN  (ResolutionDone(r) /\ Len(vs) > 1 /\ HasStorage(vs)
                /\ Full(vs[FirstStorage(vs)].Schema)) =>
                /\ Resolved(r)
                /\ schema[r] = vs[FirstStorage(vs)].Schema
                /\ \A j \in 1..Len(vs) : ~vs[j].Storage => schema[r] # vs[j].Schema
                /\ schema[r] # crd[r].Validation

\* A request rendered from the schema of a storage version that is not the
\* first entry, past a non-storage version with a schema of its own, the
\* top-level validation being present too.
C1_Witness ==
    \E r \in Requests :
        LET vs == crd[r].Versions
        IN  /\ pc[r] = "done" /\ log[r] = Rendered /\ w[r] # <<>>
            /\ Len(vs) > 1 /\ HasStorage(vs) /\ FirstStorage(vs) > 1
            /\ Full(vs[FirstStorage(vs)].Schema)
            /\ Full(vs[1].Schema)
            /\ Full(crd[r].Validation)
            /\ schema[r] = vs[FirstStorage(vs)].Schema

\* C2 as stated: a manifest of more than one version with no storage entry
\* never gets a schema returned.
C2_NoStorageNeverResolves ==
    \A r \in Requests :
        LET vs == crd[r].Versions
        IN  (ResolutionDone(r) /\ Len(vs) > 1 /\ ~HasStorage(vs)) => ~Resolved(r)

\* C3 as stated: a manifest of exactly one version gets that version's
\* schema when it is present, and the top-level validation when the version
\* has none.
C3_SingleVersionSchemaUsed ==
    \A r \in Requests :
        LET vs == crd[r].Versions
        IN  (ResolutionDone(r) /\ Len(vs) = 1) =>
                /\ Full(vs[1].Schema) => (Resolved(r) /\ schema[r] = vs[1].Schema)
                /\ vs[1].Schema = Nil => schema[r] = crd[r].Validation

\* What C4 says of a failed resolution of r: the MissingStorageSchema
\* message, no fall back to any schema, nothing rendered, the manifest as
\* it was received.
FailsMissingStorageSchema(r) ==
    /\ pc[r] = "done"
    /\ reply[r] = MissingStorageSchema
    /\ ~Resolved(r)
    /\ w[r] = <<>> /\ agenda[r] = <<>>
    /\ crd[r] = res[r][1]

\* C4 as stated: in a manifest of more than one version, a storage entry
\* with no schema makes the resolution fail with MissingStorageSchema.
C4_AnyStorageWithoutSchemaFails ==
    \A r \in Requests :
        LET vs == crd[r].Versions
        IN  (ResolutionDone(r) /\ Len(vs) > 1
                /\ \E i \in 1..Len(vs) : vs[i].Storage /\ vs[i].Schema = Nil) =>
                FailsMissingStorageSchema(r)

\* C4, amended: in a manifest of more than one version, when the first
\* entry with storage set has no schema the resolution fails with
\* MissingStorageSchema: no schema is fallen back to, nothing is rendered,
\* and the manifest is left as it was.
C4_FirstStorageWithoutSchemaFails ==
    \A r \in Requests :
        LET vs == crd[r].Versions
        IN  (ResolutionDone(r) /\ Len(vs) > 1 /\ HasStorage(vs)
                /\ vs[FirstStorage(vs)].Schema = Nil) =>
                FailsMissingStorageSchema(r)

\* A failed request whose storage version has no schema although the
\* top-level validation and another version have one.
C4_Witness ==
    \E r \in Requests :
        LET vs == crd[r].Versions
        IN  /\ pc[r] = "done" /\ reply[r] = MissingStorageSchema
            /\ Len(vs) > 1 /\ HasStorage(vs)
            /\ vs[FirstStorage(vs)].Schema = Nil
            /\ Full(crd[r].Validation)
            /\ \E j \in 1..Len(vs) : Full(vs[j].Schema)

\* The indices of the panels (the elements given an anchor id) of w[r].
Panels(r) == {i \in 1..Len(w[r]) : w[r][i].kind = "panel"}

\* The indices of the elements of w[r] of a kind written inside element p.
Children(r, p, kind) ==
    {i \in 1..Len(w[r]) : w[r][i].kind = kind /\ w[r][i].parent = p}

\* The properties the panels inside element p of w[r] are built from: those
\* of the root schema for p = 0, those of the element's schema otherwise.
PropertiesAt(r, p) ==
    IF p = 0 THEN schema[r][1].OpenAPIV3Schema[1].Properties
    ELSE w[r][p].value.Properties

\* C5 as stated: no two panels of one build have the same anchor id.
C5_UniqueAnchorIds ==
    \A r \in Requests :
        \A i, j \in Panels(r) : i # j => w[r][i].id # w[r][j].id

\* C6 as stated: a node deeper than the maximum depth has no children, so
\* nothing is written deeper than MaxDepth + 1.
C6_NothingBelowMaxDepth ==
    \A r \in Requests :
        \A i \in 1..Len(w[r]) : w[r][i].depth <= MaxDepth + 1

\* C7 as stated: a build over a node whose items are a tuple of n entries
\* succeeds, and the node gets n children for them besides those of its
\* properties.
C7_TupleItemsBuilt ==
    \A r \in Requests :
        (pc[r] = "done" /\ Resolved(r)) =>
            /\ log[r] = Rendered
            /\ \A i \in Panels(r) :
                   w[r][i].value.Items # Nil =>
                       Cardinality(Children(r, i, "panel")) =
                           Cardinality(DOMAIN w[r][i].value.Properties)
                           + Len(w[r][i].value.Items[1].JSONSchemas)

\* w[r] with the anchor ids taken out.
WithoutIds(r) == [i \in 1..Len(w[r]) |-> [w[r][i] EXCEPT !.id = 0]]

\* C8 as stated: the panels built from the properties of a node are written
\* in ascending order of property name, one per property once the build is
\* over, and two builds of one manifest write the same elements in the same
\* order, anchor ids aside.
C8_PropertiesInKeyOrder ==
    /\ \A r \in Requests :
           \A p \in 0..Len(w[r]) :
               /\ \A i, j \in Children(r, p, "panel") :
                      i < j => w[r][i].key < w[r][j].key
               /\ (pc[r] = "done" /\ Resolved(r)) =>
                      {w[r][i].key : i \in Children(r, p, "panel")}
                          = DOMAIN PropertiesAt(r, p)
    /\ \A r1, r2 \in Requests :
           (pc[r1] = "done" /\ pc[r2] = "done" /\ crd[r1] = crd[r2]
               /\ log[r1] = log[r2]) =>
               WithoutIds(r1) = WithoutIds(r2)

\* The part of C8 that is about the order alone: the panels inside one
\* element are written in ascending order of property name, and two
\* finished builds of one manifest wrote the same elements, ids aside.
PropertiesAscending ==
    /\ \A r \in Requests :
           \A p \in 0..Len(w[r]) :
               \A i, j \in Children(r, p, "panel") :
                   i < j => w[r][i].key < w[r][j].key
    /\ \A r1, r2 \in Requests :
           (pc[r1] = "done" /\ pc[r2] = "done" /\ crd[r1] = crd[r2]
               /\ log[r1] = log[r2]) =>
               WithoutIds(r1) = WithoutIds(r2)

\* Element j of w[r], written for a schema given as additionalProperties,
\* has that schema's own properties, items and additionalProperties built.
BuiltInFull(r, j) ==
    LET v == w[r][j].value
    IN  /\ {w[r][i].key : i \in Children(r, j, "panel")} = DOMAIN v.Properties
        /\ (v.Items # Nil /\ v.Items[1].Schema # Nil) =>
               Children(r, j, "itemsSchema") # {}
        /\ (v.AdditionalProperties # Nil /\ v.AdditionalProperties[1].Schema # Nil) =>
               Children(r, j, "addlSchema") # {}

\* C9 as stated: additionalProperties true marks the node and adds no
\* child, false adds nothing, and a schema adds exactly one child, built
\* in full.
C9_AdditionalPropertiesBuilt ==
    \A r \in Requests :
        (pc[r] = "done" /\ log[r] = Rendered) =>
            \A i \in Panels(r) :
                LET addl == w[r][i].value.AdditionalProperties
                IN  IF addl = Nil
                    THEN Children(r, i, "allowed") = {} /\ Children(r, i, "addlSchema") = {}
                    ELSE /\ (addl[1].Allows /\ addl[1].Schema = Nil) =>
                               /\ Children(r, i, "allowed") # {}
                               /\ Children(r, i, "addlSchema") = {}
                         /\ (~addl[1].Allows /\ addl[1].Schema = Nil) =>
                               /\ Children(r, i, "allowed") = {}
                               /\ Children(r, i, "addlSchema") = {}
                         /\ addl[1].Schema # Nil =>
                               /\ Cardinality(Children(r, i, "addlSchema")) = 1
                               /\ \A j \in Children(r, i, "addlSchema") : BuiltInFull(r, j)

\* C10 as stated: the generator state a build works on is its own: while a
\* request that has drawn an anchor id is rendered, the calls made of the
\* generator are the calls that request made.
C10_GeneratorStateOwn ==
    \A r \in Requests :
        (pc[r] = "exec" /\ Panels(r) # {}) => rng = Cardinality(Panels(r))

====
